---- MODULE Spec2Model ----
(***************************************************************************)
(* Model of main.py: the lead-capture dialogue of the Trilokana Telegram   *)
(* bot.  The state is the in-memory table user_data, the rows appended to  *)
(* the Google sheet, and the handler coroutines that are suspended at an   *)
(* await.  One action is one run of a handler between two awaits: asyncio  *)
(* switches coroutines only at an await, so everything between two awaits  *)
(* is atomic.  Texts are strings, read character by character.             *)
(***************************************************************************)
EXTENDS Naturals, Sequences, FiniteSets, TLC

VARIABLES
    user_data,   \* main.py:60   user id -> session dict, a key only while in dialogue
    sheet,       \* main.py:48   the rows appended so far, oldest first
    h,           \* the handler coroutines: where each is suspended, and its locals
    sent,        \* the message the latest step handed to the chat, if it handed one
    appends,     \* history: per user, the append_row calls made for the present session dict
    nEvents,     \* history: how many updates the webhook has dispatched
    input,       \* main.py:64, 68   the text handed to a validator called on its own
    verdict      \* main.py:66, 73   what is_valid_email and is_valid_phone returned for it

vars == <<user_data, sheet, h, sent, appends, nEvents, input, verdict>>

----------------------------------------------------------------------------
(* Bounds of the model *)

MaxEvents == 6       \* updates dispatched in one behaviour

Users == {1, 2}      \* the chat users (Telegram user ids)
Procs == {1, 2}      \* the handler coroutines that can be in flight together

----------------------------------------------------------------------------
(* Strings *)

CharAt(s, i) == SubSeq(s, i, i)

\* str.strip() with no argument removes leading and trailing whitespace
Whitespace == {" ", "\n", "\t"}

RECURSIVE LStrip(_)
LStrip(s) ==
    IF Len(s) > 0 /\ CharAt(s, 1) \in Whitespace
    THEN LStrip(SubSeq(s, 2, Len(s)))
    ELSE s

RECURSIVE RStrip(_)
RStrip(s) ==
    IF Len(s) > 0 /\ CharAt(s, Len(s)) \in Whitespace
    THEN RStrip(SubSeq(s, 1, Len(s) - 1))
    ELSE s

Strip(s) == RStrip(LStrip(s))

\* str.startswith(prefix)
StartsWith(s, prefix) ==
    Len(s) >= Len(prefix) /\ SubSeq(s, 1, Len(prefix)) = prefix

\* str.replace(old, new): every non-overlapping occurrence, left to right
RECURSIVE Replace(_, _, _)
Replace(s, old, new) ==
    IF Len(s) = 0 THEN s
    ELSE IF StartsWith(s, old)
         THEN new \o Replace(SubSeq(s, Len(old) + 1, Len(s)), old, new)
         ELSE CharAt(s, 1) \o Replace(SubSeq(s, 2, Len(s)), old, new)

\* the characters the model's texts are written in, by class
Digits == {"0", "1", "2", "3", "4", "5", "6", "7", "8", "9"}
Letters == {"a", "b", "c", "j", "l", "x", "A", "E", "O", "S"}
\* \w of a str pattern: letters, digits and the underscore
WordChars == Letters \cup Digits \cup {"_"}

AllIn(s, lo, hi, class) == \A i \in lo..hi : CharAt(s, i) \in class

----------------------------------------------------------------------------
(* Validation, main.py:64-73 *)

\* is_valid_email testing only that there is a text
is_valid_email_nonempty(email) == Len(email) > 0

\* re.match(r'^[\w\.-]+@[\w\.-]+\.\w+$', email): "$" matches at the end of the
\* string and also just before a newline that ends the string
is_valid_email(email) ==
    LET C == WordChars \cup {".", "-"}
        Ends == {Len(email)} \cup
                (IF Len(email) > 0 /\ CharAt(email, Len(email)) = "\n"
                 THEN {Len(email) - 1} ELSE {})
    IN \E n \in Ends : \E at \in 2..n : \E dot \in (at + 2)..(n - 1) :
          /\ CharAt(email, at) = "@"
          /\ CharAt(email, dot) = "."
          /\ AllIn(email, 1, at - 1, C)
          /\ AllIn(email, at + 1, dot - 1, C)
          /\ AllIn(email, dot + 1, n, WordChars)

MinPhoneDigits == 7

\* str.isdigit(): at least one character, and every character a digit
IsDigit(s) == Len(s) > 0 /\ AllIn(s, 1, Len(s), Digits)

\* is_valid_phone without .replace("-", "")
is_valid_phone_keep_hyphens(phone) ==
    LET stripped == Replace(Strip(phone), " ", "")
        normalized == IF StartsWith(stripped, "+")
                      THEN SubSeq(stripped, 2, Len(stripped))
                      ELSE stripped
    IN IsDigit(normalized) /\ Len(normalized) >= MinPhoneDigits

is_valid_phone(phone) ==
    LET stripped == Replace(Replace(Strip(phone), " ", ""), "-", "")
        normalized == IF StartsWith(stripped, "+")
                      THEN SubSeq(stripped, 2, Len(stripped))
                      ELSE stripped
    IN IsDigit(normalized) /\ Len(normalized) >= MinPhoneDigits

\* what the two validators returned for input: a bool each, or nothing yet
NoVerdict == [email |-> "unset", phone |-> "unset"]

Bool(b) == IF b THEN "true" ELSE "false"

----------------------------------------------------------------------------
(* User state and helpers, main.py:58-91 *)

KNOWN_OPTIONS == {"Digital Marketing Strategy", "Paid Marketing", "SEO", "Creatives"}

\* NewSession starting at step 1, the step of the option menu
NewSession_step1(option) ==
    [step |-> 1, Option |-> option, Name |-> "", Email |-> "", Phone |-> "", Query |-> ""]

\* the dict literal of main.py:137-144 and main.py:169-176
NewSession(option) ==
    [step |-> 2, Option |-> option, Name |-> "", Email |-> "", Phone |-> "", Query |-> ""]

HasSession(u) == u \in DOMAIN user_data

\* user_data[user_id] = session
Assign(ud, u, session) == [v \in DOMAIN ud \cup {u} |-> IF v = u THEN session ELSE ud[v]]

\* reset_user without its del
reset_user_keep(ud, u) == ud

\* reset_user emptying the whole table
reset_user_all(ud, u) == <<>>

reset_user(ud, u) ==
    IF u \in DOMAIN ud THEN [v \in DOMAIN ud \ {u} |-> ud[v]] ELSE ud

\* Row with the email and phone columns exchanged
Row_swapped(data) == <<data.Option, data.Name, data.Phone, data.Email, data.Query>>

\* the row save_to_sheet_sync builds, without its timestamp
Row(data) == <<data.Option, data.Name, data.Email, data.Phone, data.Query>>

\* save_to_sheet_sync returning True from its except clause as well
save_to_sheet_sync_true_on_error(sh, data, sinkOk) ==
    IF sinkOk
    THEN [sheet |-> Append(sh, Row(data)), success |-> "true"]
    ELSE [sheet |-> sh, success |-> "true"]

\* save_to_sheet_sync: sheet.append_row either appends the row and the function
\* returns True, or raises and the function returns False
save_to_sheet_sync(sh, data, sinkOk) ==
    IF sinkOk
    THEN [sheet |-> Append(sh, Row(data)), success |-> "true"]
    ELSE [sheet |-> sh, success |-> "false"]

----------------------------------------------------------------------------
(* Handler coroutines *)

\* where a coroutine can be suspended: the awaits of button_handler
\* (main.py:130, 148, 151) and of handle_message (main.py:178-212 send one reply
\* and return; 225 and 232 send one reply and reset; 222 and 223 are the two
\* replies of a successful submission)
\* acked and fresh are history: whether query.answer() was called and how it
\* ended, and whether the handler created the session of a user who had none
Idle == [pc |-> "idle", user |-> 0, arg |-> "", msg |-> "", success |-> "unset",
         acked |-> "no", fresh |-> FALSE]

IsFree(p) == h[p].pc = "idle"

\* an update is dispatched to the first free coroutine slot
Free(p) == IsFree(p) /\ \A q \in 1..(p - 1) : ~IsFree(q)

NoMsg == [to |-> 0, text |-> ""]

\* reply_text(m) on a message of user u returned
Reply(u, m) == [to |-> u, text |-> m]

\* the updates the transport delivers
ButtonData == {"option_SEO", "confirm", "cancel"}
Texts == {"SEO", "Al ", "a@b.c", "+12 34-567"}

----------------------------------------------------------------------------
(* button_handler, main.py:117-155 *)

\* button_handler_entry with the option branch run before query.answer() is called
button_handler_entry_late_answer(p, u, data) ==
    /\ Free(p)
    /\ nEvents < MaxEvents
    /\ nEvents' = nEvents + 1
    /\ h' = [h EXCEPT ![p] = [Idle EXCEPT !.pc = "bh_answer", !.user = u, !.arg = data,
                                          !.acked = "pending"]]
    /\ user_data' = IF StartsWith(data, "option_")
                    THEN Assign(user_data, u, NewSession(Replace(data, "option_", "")))
                    ELSE user_data
    /\ sent' = NoMsg
    /\ UNCHANGED <<sheet, appends, input, verdict>>

\* main.py:118-130: up to the call of query.answer()
button_handler_entry(p, u, data) ==
    /\ Free(p)
    /\ nEvents < MaxEvents
    /\ nEvents' = nEvents + 1
    /\ h' = [h EXCEPT ![p] = [Idle EXCEPT !.pc = "bh_answer", !.user = u, !.arg = data,
                                          !.acked = "pending"]]
    /\ sent' = NoMsg
    /\ UNCHANGED <<user_data, sheet, appends, input, verdict>>

\* IsOptionData taking every callback data for an option
IsOptionData_any(data) == TRUE

\* main.py:135
IsOptionData(data) == StartsWith(data, "option_")

\* SelectedOption removing "option" and leaving the underscore
SelectedOption_underscore(data) == Replace(data, "option", "")

\* main.py:136
SelectedOption(data) == Replace(data, "option_", "")

\* main.py:129-145 and 154-155: query.answer() returned or raised (the except
\* clause swallows it); then the option branch up to edit_reply_markup
button_handler_answered(p, ok) ==
    /\ h[p].pc = "bh_answer"
    /\ LET u == h[p].user
           data == h[p].arg
       IN IF IsOptionData(data)
          THEN /\ user_data' = Assign(user_data, u, NewSession(SelectedOption(data)))
               /\ appends' = [appends EXCEPT ![u] = 0]
               /\ h' = [h EXCEPT ![p] = [@ EXCEPT !.pc = "bh_edit",
                                                  !.acked = IF ok THEN "ok" ELSE "failed",
                                                  !.fresh = ~HasSession(u)]]
          ELSE /\ h' = [h EXCEPT ![p] = Idle]
               /\ UNCHANGED <<user_data, appends>>
    /\ sent' = NoMsg
    /\ UNCHANGED <<sheet, nEvents, input, verdict>>

\* main.py:147-150: edit_reply_markup returned or raised, no difference
button_handler_edited(p) ==
    /\ h[p].pc = "bh_edit"
    /\ h' = [h EXCEPT ![p] = [@ EXCEPT !.pc = "bh_reply"]]
    /\ sent' = NoMsg
    /\ UNCHANGED <<user_data, sheet, appends, nEvents, input, verdict>>

\* main.py:151-152: reply_text returned, or raised and ended the handler
button_handler_replied(p, ok) ==
    /\ h[p].pc = "bh_reply"
    /\ h' = [h EXCEPT ![p] = Idle]
    /\ sent' = IF ok THEN Reply(h[p].user, "SelectedEnterName") ELSE NoMsg
    /\ UNCHANGED <<user_data, sheet, appends, nEvents, input, verdict>>

----------------------------------------------------------------------------
(* handle_message, main.py:157-233 *)

\* StepOnText with the return after an error reply missing: the rejected text
\* is stored and the step advances
StepOnText_no_return(session, text) ==
    CASE session.step = 2 ->
           [session |-> [session EXCEPT !.Name = text, !.step = 3], msg |-> "EnterEmail"]
      [] session.step = 3 ->
           [session |-> [session EXCEPT !.Email = text, !.step = 4],
            msg |-> IF ~is_valid_email(text) THEN "InvalidEmail" ELSE "EnterPhone"]
      [] session.step = 4 ->
           [session |-> [session EXCEPT !.Phone = text, !.step = 5],
            msg |-> IF ~is_valid_phone(text) THEN "InvalidPhone" ELSE "EnterQuery"]

\* StepOnText writing the phone number into the Email field
StepOnText_phone_in_email(session, text) ==
    CASE session.step = 2 ->
           [session |-> [session EXCEPT !.Name = text, !.step = 3], msg |-> "EnterEmail"]
      [] session.step = 3 ->
           IF ~is_valid_email(text)
           THEN [session |-> session, msg |-> "InvalidEmail"]
           ELSE [session |-> [session EXCEPT !.Email = text, !.step = 4], msg |-> "EnterPhone"]
      [] session.step = 4 ->
           IF ~is_valid_phone(text)
           THEN [session |-> session, msg |-> "InvalidPhone"]
           ELSE [session |-> [session EXCEPT !.Email = text, !.step = 5], msg |-> "EnterQuery"]

\* IsKnownOption taking every text for an option
IsKnownOption_any(text) == TRUE

\* main.py:168
IsKnownOption(text) == text \in KNOWN_OPTIONS

\* main.py:188-213: what a text does to a session at step 2, 3 or 4, and the reply
StepOnText(session, text) ==
    CASE session.step = 2 ->
           [session |-> [session EXCEPT !.Name = text, !.step = 3], msg |-> "EnterEmail"]
      [] session.step = 3 ->
           IF ~is_valid_email(text)
           THEN [session |-> session, msg |-> "InvalidEmail"]
           ELSE [session |-> [session EXCEPT !.Email = text, !.step = 4], msg |-> "EnterPhone"]
      [] session.step = 4 ->
           IF ~is_valid_phone(text)
           THEN [session |-> session, msg |-> "InvalidPhone"]
           ELSE [session |-> [session EXCEPT !.Phone = text, !.step = 5], msg |-> "EnterQuery"]

\* main.py:158-233 up to the first await
handle_message_entry(p, u, rawText, sinkOk) ==
    /\ Free(p)
    /\ nEvents < MaxEvents
    /\ nEvents' = nEvents + 1
    /\ sent' = NoMsg
    /\ UNCHANGED <<input, verdict>>
    /\ LET text == Strip(rawText)
           hp == [Idle EXCEPT !.user = u, !.arg = text]
       IN IF rawText = ""
          THEN \* main.py:159-160
               /\ h' = h
               /\ UNCHANGED <<user_data, sheet, appends>>
          ELSE IF ~HasSession(u)
          THEN IF IsKnownOption(text)
               THEN \* main.py:168-179
                    /\ user_data' = Assign(user_data, u, NewSession(text))
                    /\ appends' = [appends EXCEPT ![u] = 0]
                    /\ h' = [h EXCEPT ![p] = [hp EXCEPT !.pc = "hm_reply", !.msg = "EnterName",
                                                        !.fresh = TRUE]]
                    /\ UNCHANGED sheet
               ELSE \* main.py:180-182
                    /\ h' = [h EXCEPT ![p] = [hp EXCEPT !.pc = "hm_reply", !.msg = "Guidance"]]
                    /\ UNCHANGED <<user_data, sheet, appends>>
          ELSE IF user_data[u].step \in {2, 3, 4}
          THEN LET r == StepOnText(user_data[u], text)
               IN /\ user_data' = Assign(user_data, u, r.session)
                  /\ h' = [h EXCEPT ![p] = [hp EXCEPT !.pc = "hm_reply", !.msg = r.msg]]
                  /\ UNCHANGED <<sheet, appends>>
          ELSE IF user_data[u].step = 5
          THEN \* main.py:216-225
               LET data == [user_data[u] EXCEPT !.Query = text]
                   saved == save_to_sheet_sync(sheet, data, sinkOk)
               IN /\ user_data' = Assign(user_data, u, data)
                  /\ sheet' = saved.sheet
                  /\ appends' = [appends EXCEPT ![u] = @ + 1]
                  /\ h' = [h EXCEPT ![p] =
                             IF saved.success = "true"
                             THEN [hp EXCEPT !.pc = "hm_thanks", !.success = "true"]
                             ELSE [hp EXCEPT !.pc = "hm_reply_reset", !.success = "false",
                                             !.msg = "Sorry"]]
          ELSE \* main.py:230-232
               /\ h' = [h EXCEPT ![p] = [hp EXCEPT !.pc = "hm_reply_reset",
                                                   !.msg = "SomethingWrong"]]
               /\ UNCHANGED <<user_data, sheet, appends>>

\* the reply_text of main.py:178, 181, 192, 198, 202, 208 or 212, then return;
\* when it raises the handler ends there
handle_message_replied(p, ok) ==
    /\ h[p].pc = "hm_reply"
    /\ h' = [h EXCEPT ![p] = Idle]
    /\ sent' = IF ok THEN Reply(h[p].user, h[p].msg) ELSE NoMsg
    /\ UNCHANGED <<user_data, sheet, appends, nEvents, input, verdict>>

\* main.py:222
handle_message_thanked(p, ok) ==
    /\ h[p].pc = "hm_thanks"
    /\ h' = [h EXCEPT ![p] = IF ok THEN [@ EXCEPT !.pc = "hm_whatsapp"] ELSE Idle]
    /\ sent' = IF ok THEN Reply(h[p].user, "Thanks") ELSE NoMsg
    /\ UNCHANGED <<user_data, sheet, appends, nEvents, input, verdict>>

\* main.py:223, then 226-228
handle_message_whatsapp(p, ok) ==
    /\ h[p].pc = "hm_whatsapp"
    /\ h' = [h EXCEPT ![p] = Idle]
    /\ sent' = IF ok THEN Reply(h[p].user, "WhatsApp") ELSE NoMsg
    /\ user_data' = IF ok THEN reset_user(user_data, h[p].user) ELSE user_data
    /\ UNCHANGED <<sheet, appends, nEvents, input, verdict>>

\* main.py:225 then 226-228, and main.py:232-233
handle_message_reply_reset(p, ok) ==
    /\ h[p].pc = "hm_reply_reset"
    /\ h' = [h EXCEPT ![p] = Idle]
    /\ sent' = IF ok THEN Reply(h[p].user, h[p].msg) ELSE NoMsg
    /\ user_data' = IF ok THEN reset_user(user_data, h[p].user) ELSE user_data
    /\ UNCHANGED <<sheet, appends, nEvents, input, verdict>>

----------------------------------------------------------------------------
(* The specification *)

Init ==
    /\ user_data = <<>>
    /\ sheet = <<>>
    /\ h = [p \in Procs |-> Idle]
    /\ sent = NoMsg
    /\ appends = [u \in Users |-> 0]
    /\ nEvents = 0
    /\ input = ""
    /\ verdict = NoVerdict

Next ==
    \E p \in Procs :
        \/ \E u \in Users : \E data \in ButtonData : button_handler_entry(p, u, data)
        \/ \E ok \in BOOLEAN : button_handler_answered(p, ok)
        \/ button_handler_edited(p)
        \/ \E ok \in BOOLEAN : button_handler_replied(p, ok)
        \/ \E u \in Users : \E t \in Texts : \E sinkOk \in BOOLEAN :
              handle_message_entry(p, u, t, sinkOk)
        \/ \E ok \in BOOLEAN : handle_message_replied(p, ok)
        \/ \E ok \in BOOLEAN : handle_message_thanked(p, ok)
        \/ \E ok \in BOOLEAN : handle_message_whatsapp(p, ok)
        \/ \E ok \in BOOLEAN : handle_message_reply_reset(p, ok)

Spec == Init /\ [][Next]_vars

----------------------------------------------------------------------------
(* The validators called on their own, main.py:64-73 *)

MaxPhoneLen == 8     \* longest text handed to the validators, in phone characters
MaxEmailLen == 6     \* longest text handed to the validators, in email characters

PhoneChars == {"1", "+", "-", " ", "\n"}
EmailChars == {"a", "@", ".", "-", "\n"}

\* the text whose characters are cs[1], ..., cs[n]
RECURSIVE Join(_, _)
Join(cs, n) == IF n = 0 THEN "" ELSE Join(cs, n - 1) \o cs[n]

\* input is some text of at most maxLen characters of chars
InputOver(chars, maxLen) ==
    \E n \in 0..maxLen : \E cs \in [1..n -> chars] : input = Join(cs, n)

InitValidators ==
    /\ user_data = <<>>
    /\ sheet = <<>>
    /\ h = [p \in Procs |-> Idle]
    /\ sent = NoMsg
    /\ appends = [u \in Users |-> 0]
    /\ nEvents = 0
    /\ \/ InputOver(PhoneChars, MaxPhoneLen)
       \/ InputOver(EmailChars, MaxEmailLen)
    /\ verdict = NoVerdict

\* main.py:64-66
call_is_valid_email ==
    /\ verdict.email = "unset"
    /\ verdict' = [verdict EXCEPT !.email = Bool(is_valid_email(input))]
    /\ UNCHANGED <<user_data, sheet, h, sent, appends, nEvents, input>>

\* main.py:68-73
call_is_valid_phone ==
    /\ verdict.phone = "unset"
    /\ verdict' = [verdict EXCEPT !.phone = Bool(is_valid_phone(input))]
    /\ UNCHANGED <<user_data, sheet, h, sent, appends, nEvents, input>>

NextValidators == call_is_valid_email \/ call_is_valid_phone

SpecValidators == InitValidators /\ [][NextValidators]_vars

----------------------------------------------------------------------------
(* Steps, as properties of a pair of states *)

\* coroutine p has just run handle_message for user u up to its first await; the
\* stripped text of the message is then h'[p].arg
TextEntry(p, u) ==
    /\ h[p].pc = "idle"
    /\ h'[p].pc \in {"hm_reply", "hm_reply_reset", "hm_thanks"}
    /\ h'[p].user = u

\* coroutine p has just resumed button_handler after query.answer()
ButtonAnswered(p) == h[p].pc = "bh_answer" /\ h'[p].pc # "bh_answer"

\* the step hands message m to the chat of user u
Sends(u, m) == sent' = Reply(u, m)

\* the step removes the session of user u from the store
Deletes(u) == u \in DOMAIN user_data /\ u \notin DOMAIN user_data'

----------------------------------------------------------------------------
(* C1 *)

\* C1: the step of a user's session never decreases while the session stays in
\* the store, whatever event is handled; an option selection at step 3, 4 or 5
\* does not move it back to 2.
StepNeverDecreases ==
    [][\A u \in Users :
          (u \in DOMAIN user_data /\ u \in DOMAIN user_data')
             => user_data'[u].step >= user_data[u].step]_vars

----------------------------------------------------------------------------
(* C2 *)

\* C2: a second delivery of an option selection, arriving while the first
\* delivery (which created the session of a user who had none) is still being
\* handled, continues the existing session: it leaves step and fields as they are.
SecondSelectionKeepsSession ==
    [][\A p \in Procs : \A q \in Procs \ {p} :
          (/\ ButtonAnswered(p)
           /\ IsOptionData(h[p].arg)
           /\ h[q].pc \in {"bh_edit", "bh_reply"}
           /\ h[q].fresh
           /\ h[q].user = h[p].user
           /\ h[q].arg = h[p].arg
           /\ h[p].user \in DOMAIN user_data)
             => user_data'[h[p].user] = user_data[h[p].user]]_vars

----------------------------------------------------------------------------
(* C3 *)

\* C3: two handle_message coroutines of the same user never both append a row
\* for the same session: while one is suspended after its append, a second one
\* sees the state advanced, so append_row is called at most once for the session.
NoConcurrentDuplicateSubmission ==
    \A p \in Procs : \A q \in Procs \ {p} :
        (h[p].success = "true" /\ h[q].success = "true" /\ h[p].user = h[q].user)
           => appends[h[p].user] <= 1

----------------------------------------------------------------------------
(* C4 *)

\* C4 as stated: a row is appended only by the handling of a confirm selection.
AppendOnlyOnConfirm ==
    [][sheet' # sheet
          => \E p \in Procs : ButtonAnswered(p) /\ h[p].arg = "confirm"]_vars

\* C4 as amended: the handling of the query text of a session at step 5 makes
\* exactly one append_row call, whose row (when the call succeeds) carries the
\* option, name, email and phone of the session and that query, with the session
\* still in the store; the success message is sent only after a successful
\* append of the same handler, and handle_message deletes a session only after
\* its outcome message was sent.
SubmissionOnQueryText ==
    [][/\ \A p \in Procs : \A u \in Users :
            (TextEntry(p, u) /\ u \in DOMAIN user_data /\ user_data[u].step = 5)
               => /\ appends'[u] = appends[u] + 1
                  /\ u \in DOMAIN user_data'
                  /\ \/ /\ h'[p].pc = "hm_thanks"
                        /\ sheet' = Append(sheet, <<user_data[u].Option, user_data[u].Name,
                                                     user_data[u].Email, user_data[u].Phone,
                                                     h'[p].arg>>)
                     \/ /\ h'[p].pc = "hm_reply_reset"
                        /\ sheet' = sheet
       /\ \A u \in Users :
            Sends(u, "Thanks")
               => \E p \in Procs : h[p].user = u /\ h[p].pc = "hm_thanks"
                                   /\ h[p].success = "true"
       /\ \A p \in Procs :
            (h'[p].success = "true" /\ h[p].success # "true")
               => Len(sheet') = Len(sheet) + 1
       /\ \A u \in Users :
            Deletes(u)
               => \E p \in Procs : /\ h[p].user = u
                                   /\ h[p].success # "unset"
                                   /\ sent' \in {Reply(u, "WhatsApp"), Reply(u, "Sorry")}]_vars

\* a dialogue was completed: one row with the texts of the dialogue has been
\* appended, both success messages went out and the session is gone
SubmissionCompleted ==
    \E u \in Users :
        /\ sent = Reply(u, "WhatsApp")
        /\ u \notin DOMAIN user_data
        /\ sheet = << <<"SEO", "Al", "a@b.c", "+12 34-567", "Al">> >>

----------------------------------------------------------------------------
(* C5 *)

\* C5 as stated: accepting the query text only stores the query; the handling
\* of a text message never calls the Record Sink.
QueryTextOnlyStored ==
    [][\A p \in Procs : \A u \in Users :
          TextEntry(p, u) => (sheet' = sheet /\ appends'[u] <= appends[u])]_vars

\* C5 as amended: the Record Sink is called only by the handling of a text for
\* a session at step 5, which stores the query and submits at once; a confirm
\* or cancel selection leaves the session store and the sheet unchanged.
SinkCalledOnlyOnQueryText ==
    [][/\ \A u \in Users :
            appends'[u] > appends[u]
               => \E p \in Procs : /\ TextEntry(p, u)
                                   /\ u \in DOMAIN user_data
                                   /\ user_data[u].step = 5
                                   /\ user_data'[u] = [user_data[u] EXCEPT !.Query = h'[p].arg]
       /\ sheet' # sheet => \E u \in Users : appends'[u] > appends[u]
       /\ \A p \in Procs :
            (ButtonAnswered(p) /\ h[p].arg \in {"confirm", "cancel"})
               => (user_data' = user_data /\ sheet' = sheet /\ appends' = appends)]_vars

\* the query text has just been handled: the row is in the sheet while the
\* session, with its query stored, is still at step 5
SubmittedWithoutConfirm ==
    \E p \in Procs :
        /\ h[p].pc = "hm_thanks"
        /\ h[p].user \in DOMAIN user_data
        /\ user_data[h[p].user].step = 5
        /\ user_data[h[p].user].Query = "+12 34-567"
        /\ appends[h[p].user] = 1
        /\ Len(sheet) = 1

----------------------------------------------------------------------------
(* C6 *)

\* the texts of the model that are no email address, and those that are no
\* phone number
NotAnEmail == {"SEO", "Al", "+12 34-567"}
NotAPhone == {"SEO", "Al", "a@b.c"}

\* C6: a text that is no valid email at step 3, or no valid phone at step 4,
\* leaves the session store, the sheet and the append count as they were, and
\* the handler's reply is the error re-prompt of that step.
RejectionChangesNothing ==
    [][\A p \in Procs : \A u \in Users :
          (/\ TextEntry(p, u)
           /\ u \in DOMAIN user_data
           /\ \/ user_data[u].step = 3 /\ h'[p].arg \in NotAnEmail
              \/ user_data[u].step = 4 /\ h'[p].arg \in NotAPhone)
             => /\ user_data' = user_data
                /\ sheet' = sheet
                /\ appends' = appends
                /\ h'[p].pc = "hm_reply"
                /\ h'[p].msg = IF user_data[u].step = 3 THEN "InvalidEmail"
                                                        ELSE "InvalidPhone"]_vars

\* a text that is no phone number was rejected at step 4: the error re-prompt
\* went out and the session still waits for the phone
PhoneRejected ==
    \E u \in Users :
        /\ sent = Reply(u, "InvalidPhone")
        /\ u \in DOMAIN user_data
        /\ user_data[u].step = 4
        /\ user_data[u].Phone = ""

----------------------------------------------------------------------------
(* C7 *)

\* C7: a text that is none of the four options, from a user with no session,
\* leaves the session store unchanged and is answered by the guidance message.
UnrecognizedTextCreatesNothing ==
    [][\A p \in Procs : \A u \in Users :
          (/\ TextEntry(p, u)
           /\ u \notin DOMAIN user_data
           /\ h'[p].arg \notin {"Digital Marketing Strategy", "Paid Marketing", "SEO",
                                "Creatives"})
             => /\ user_data' = user_data
                /\ h'[p].pc = "hm_reply"
                /\ h'[p].msg = "Guidance"]_vars

\* the guidance message went out to a user who still has no session
GuidanceSent ==
    \E u \in Users : sent = Reply(u, "Guidance") /\ u \notin DOMAIN user_data

----------------------------------------------------------------------------
(* C8 *)

\* the session the spec asks for after an option selection: at the name prompt,
\* with the option and nothing else
NamePromptSession(o) ==
    [step |-> 2, Option |-> o, Name |-> "", Email |-> "", Phone |-> "", Query |-> ""]

\* C8: for a user with no session, the text o and the button of o (callback
\* data "option_" followed by o) leave the same session store: the user's
\* session is the name-prompt session of o, the other sessions are untouched.
TypedOptionEqualsButton ==
    /\ \A o \in {"Digital Marketing Strategy", "Paid Marketing", "SEO", "Creatives"} :
          SelectedOption("option_" \o o) = o
    /\ [][\A p \in Procs : \A u \in Users :
             \A o \in {"Digital Marketing Strategy", "Paid Marketing", "SEO", "Creatives"} :
                /\ (TextEntry(p, u) /\ u \notin DOMAIN user_data /\ h'[p].arg = o)
                      => user_data' = Assign(user_data, u, NamePromptSession(o))
                /\ (ButtonAnswered(p) /\ h[p].user = u /\ u \notin DOMAIN user_data
                    /\ h[p].arg = "option_" \o o)
                      => user_data' = Assign(user_data, u, NamePromptSession(o))]_vars

\* one user typed the option and another clicked its button, neither had a
\* session, and the two sessions are the same
TypedAndClickedAgree ==
    \E p \in Procs : \E q \in Procs \ {p} :
        /\ h[p].pc = "hm_reply" /\ h[p].msg = "EnterName" /\ h[p].fresh
        /\ h[q].pc = "bh_edit" /\ h[q].fresh
        /\ h[p].user # h[q].user
        /\ h[p].user \in DOMAIN user_data
        /\ h[q].user \in DOMAIN user_data
        /\ user_data[h[p].user] = user_data[h[q].user]
        /\ user_data[h[p].user].Option = "SEO"

----------------------------------------------------------------------------
(* C9 *)

BhPcs == {"bh_answer", "bh_edit", "bh_reply"}

\* C9: query.answer() is called before button_handler changes the session store
\* or sends a message, and what follows runs whether the call succeeded or failed.
AckFirst ==
    [][\A p \in Procs :
          ((h[p].pc \in BhPcs \/ h'[p].pc \in BhPcs) /\ h'[p] # h[p])
             => /\ h[p].pc = "idle"
                   => (h'[p].acked = "pending" /\ user_data' = user_data /\ sent' = NoMsg)
                /\ h[p].pc # "idle" => h[p].acked # "no"
                /\ (h[p].pc = "bh_answer" /\ h[p].arg = "option_SEO")
                   => /\ h'[p].pc = "bh_edit"
                      /\ h'[p].acked \in {"ok", "failed"}
                      /\ h[p].user \in DOMAIN user_data'
                      /\ user_data'[h[p].user] = NamePromptSession("SEO")]_vars

\* query.answer() failed and the option selection was processed all the same
AckFailedThenProcessed ==
    \E p \in Procs :
        /\ h[p].pc = "bh_reply"
        /\ h[p].acked = "failed"
        /\ h[p].user \in DOMAIN user_data
        /\ user_data[h[p].user].step = 2

----------------------------------------------------------------------------
(* C10 *)

\* C10: when append_row fails, save_to_sheet_sync returns False to its caller
\* (the handler goes on to its reply), the only message that handler sends is
\* the failure message, and when the outcome message of a submission, failed or
\* successful, has been sent the session is not in the store.
SinkFailureContained ==
    [][\A p \in Procs : \A u \in Users :
          /\ (TextEntry(p, u) /\ appends'[u] > appends[u] /\ sheet' = sheet)
                => (h'[p].success = "false" /\ h'[p].pc = "hm_reply_reset"
                    /\ h'[p].msg = "Sorry" /\ u \in DOMAIN user_data')
          /\ (h[p].success = "false" /\ h[p].user = u /\ h'[p] # h[p])
                => (h'[p] = Idle /\ sent' \in {NoMsg, Reply(u, "Sorry")})
          /\ (h[p].success # "unset" /\ h[p].user = u
              /\ sent' \in {Reply(u, "Sorry"), Reply(u, "WhatsApp")})
                => u \notin DOMAIN user_data']_vars

\* append_row failed: nothing is in the sheet, the failure message went out and
\* the session is gone
FailureReported ==
    \E u \in Users :
        /\ sent = Reply(u, "Sorry")
        /\ u \notin DOMAIN user_data
        /\ appends[u] = 1
        /\ sheet = <<>>

----------------------------------------------------------------------------
(* C11 *)

\* C11: the session being submitted is in the store before and after the call of
\* save_to_sheet_sync (the call is synchronous, nothing runs during it), with the
\* query text stored in it; the thanks message is sent only by a handler whose
\* call returned True, and the call returns True only when the row of that
\* session has been appended.
SubmissionOrdering ==
    [][\A p \in Procs : \A u \in Users :
          /\ (TextEntry(p, u) /\ appends'[u] > appends[u])
                => /\ u \in DOMAIN user_data
                   /\ user_data[u].step = 5
                   /\ u \in DOMAIN user_data'
                   /\ user_data'[u] = [user_data[u] EXCEPT !.Query = h'[p].arg]
          /\ (h[p].success # "true" /\ h'[p].success = "true" /\ h'[p].user = u)
                => /\ Len(sheet') = Len(sheet) + 1
                   /\ sheet'[Len(sheet')] = Row(user_data'[u])
          /\ (Sends(u, "Thanks") /\ h[p].user = u /\ h'[p] # h[p])
                => (h[p].pc = "hm_thanks" /\ h[p].success = "true")]_vars

\* the thanks message has gone out, the row is in the sheet and the session it
\* was built from is still in the store
ThanksAfterAppend ==
    \E u \in Users :
        /\ sent = Reply(u, "Thanks")
        /\ u \in DOMAIN user_data
        /\ user_data[u].step = 5
        /\ Len(sheet) = 1
        /\ sheet[1] = Row(user_data[u])

----------------------------------------------------------------------------
(* C12 *)

\* C12: every session in the store has its step in {2, 3, 4, 5}, so the branch
\* of handle_message for an unhandled step (main.py:230-233) is never run: no
\* handler is about to send, or sends, its "Something went wrong" message.
ClosedStepEnumeration ==
    /\ \A u \in DOMAIN user_data : user_data[u].step \in {2, 3, 4, 5}
    /\ \A p \in Procs : h[p].msg # "SomethingWrong"
    /\ sent.text # "SomethingWrong"

\* one session has been taken through every step to the last, another is on
\* its way
SessionsAtSeveralSteps ==
    /\ 1 \in DOMAIN user_data /\ 2 \in DOMAIN user_data
    /\ user_data[1].step = 5
    /\ user_data[2].step = 3

----------------------------------------------------------------------------
(* C13 *)

\* an optional leading "+", then only digits, at least MinPhoneDigits of them
PlusAndDigits(t) ==
    LET first == IF Len(t) > 0 /\ CharAt(t, 1) = "+" THEN 2 ELSE 1
    IN /\ Len(t) - first + 1 >= MinPhoneDigits
       /\ \A i \in first..Len(t) : CharAt(t, i) \in Digits

\* t from its first to its last character that is not whitespace
Trimmed(t) ==
    LET I == {i \in 1..Len(t) : CharAt(t, i) \notin Whitespace}
    IN IF I = {} THEN ""
       ELSE SubSeq(t, CHOOSE i \in I : \A j \in I : i <= j,
                      CHOOSE i \in I : \A j \in I : i >= j)

\* the characters of t that are not in drop, in their order
RECURSIVE Without(_, _)
Without(t, drop) ==
    IF Len(t) = 0 THEN ""
    ELSE (IF CharAt(t, 1) \in drop THEN "" ELSE CharAt(t, 1))
            \o Without(SubSeq(t, 2, Len(t)), drop)

\* C13 as stated: is_valid_phone(t) is true exactly when t, after a single
\* optional leading "+", consists only of digits, at least 7 of them; a text
\* with spaces or hyphens among the digits is rejected.
PhoneIsPlusAndDigits ==
    verdict.phone # "unset"
       => (verdict.phone = "true" <=> PlusAndDigits(input))

\* C13, amended: is_valid_phone(t) is true exactly when t, with the whitespace
\* at its two ends removed, then every space and hyphen removed, then a single
\* optional leading "+" removed, consists only of digits, at least 7 of them.
PhoneIsPlusAndDigitsOnceNormalized ==
    verdict.phone # "unset"
       => (verdict.phone = "true"
              <=> PlusAndDigits(Without(Trimmed(input), {" ", "-"})))

\* a text with a hyphen among its seven digits has been accepted
HyphenatedPhoneAccepted ==
    /\ input = "1-111111"
    /\ verdict.phone = "true"

----------------------------------------------------------------------------
(* C14 *)

\* characters 1..n of t are: some of [\w.-], "@", some of [\w.-], ".", some \w
EmailShape(t, n) ==
    \E at \in 2..n : \E dot \in (at + 2)..(n - 1) :
        /\ CharAt(t, at) = "@"
        /\ CharAt(t, dot) = "."
        /\ \A i \in (1..(dot - 1)) \ {at} : CharAt(t, i) \in WordChars \cup {".", "-"}
        /\ \A i \in (dot + 1)..n : CharAt(t, i) \in WordChars

\* C14: is_valid_email(t) is true exactly when the whole of t has the shape
\* [\w.-]+ "@" [\w.-]+ "." \w+, with nothing before it and nothing after it.
EmailIsWholeShape ==
    verdict.email # "unset"
       => (verdict.email = "true" <=> EmailShape(input, Len(input)))

----------------------------------------------------------------------------
(* C15 *)

\* C15: a handler that has made its append for user u (it is suspended at a
\* reply of main.py:222-225) deletes only the session it submitted: when the
\* session now in the store was created after that append (no append has been
\* made for it), the step that ends the handler leaves it in the store.
SubmitterDeletesOnlyItsSession ==
    [][\A p \in Procs : \A u \in Users :
          (/\ h[p].success # "unset"
           /\ h[p].user = u
           /\ h'[p] = Idle
           /\ u \in DOMAIN user_data
           /\ appends[u] = 0)
             => (u \in DOMAIN user_data' /\ user_data'[u] = user_data[u])]_vars

----------------------------------------------------------------------------
(* C16 *)

\* t passes is_valid_email, and has the shape of an email address
ValidEmail(t) == is_valid_email(t) /\ EmailShape(t, Len(t))

\* t passes is_valid_phone, and is a phone number once normalized
ValidPhone(t) == is_valid_phone(t) /\ PlusAndDigits(Without(Trimmed(t), {" ", "-"}))

\* C16: only validated data is stored and submitted: a session at step 4 or 5
\* has an Email that passes is_valid_email, a session at step 5 has a Phone
\* that passes is_valid_phone, a session at step 2 has Name, Email, Phone and
\* Query all empty, and every row handed to the sheet has an Email and a Phone
\* that pass their validators.
OnlyValidatedData ==
    /\ \A u \in DOMAIN user_data :
          LET s == user_data[u]
          IN /\ s.step \in {4, 5} => ValidEmail(s.Email)
             /\ s.step = 5 => ValidPhone(s.Phone)
             /\ s.step = 2 => (s.Name = "" /\ s.Email = "" /\ s.Phone = "" /\ s.Query = "")
    /\ \A i \in 1..Len(sheet) : ValidEmail(sheet[i][3]) /\ ValidPhone(sheet[i][4])

\* a row has been handed to the sheet from a session that went through both
\* validations, while the other user's session is at its first step
ValidatedRowAppended ==
    /\ 1 \in DOMAIN user_data /\ 2 \in DOMAIN user_data
    /\ user_data[1].step = 5
    /\ user_data[1].Email = "a@b.c"
    /\ user_data[1].Phone = "+12 34-567"
    /\ sheet = <<Row(user_data[1])>>
    /\ user_data[2].step = 2

----------------------------------------------------------------------------
(* C17 *)

\* C17: every append attempt made for a session is followed by the deletion of
\* that session, whether append_row succeeded or failed and also when the
\* sending of the outcome message raises: a session for which an append has
\* been made is in the store only while a handler that made an append for its
\* user is still on its way to reset_user; it is never left in the store at
\* the query step with its handlers ended.
AppendedSessionGetsDeleted ==
    \A u \in DOMAIN user_data :
        appends[u] >= 1
           => \E p \in Procs : h[p].user = u /\ h[p].success # "unset"

----------------------------------------------------------------------------
(* C18 *)

\* C18: one field per step: an accepted text (any text at step 2, a valid email
\* at step 3, a valid phone at step 4; the text is the message text as
\* handle_message reads it, stripped) advances the step of the user's session
\* by exactly one and writes exactly the field of that step with the text,
\* leaving Option and the other fields as they were; and no step is skipped:
\* a session enters the store at step 2 and no event raises its step by more
\* than one.
OneFieldPerStep ==
    [][/\ \A p \in Procs : \A u \in DOMAIN user_data :
             LET s == user_data[u]
                 t == h'[p].arg
             IN /\ (TextEntry(p, u) /\ s.step = 2)
                      => (u \in DOMAIN user_data'
                          /\ user_data'[u] = [s EXCEPT !.Name = t, !.step = 3])
                /\ (TextEntry(p, u) /\ s.step = 3 /\ ValidEmail(t))
                      => (u \in DOMAIN user_data'
                          /\ user_data'[u] = [s EXCEPT !.Email = t, !.step = 4])
                /\ (TextEntry(p, u) /\ s.step = 4 /\ ValidPhone(t))
                      => (u \in DOMAIN user_data'
                          /\ user_data'[u] = [s EXCEPT !.Phone = t, !.step = 5])
       /\ \A u \in DOMAIN user_data' :
             IF u \in DOMAIN user_data
             THEN user_data'[u].step <= user_data[u].step + 1
             ELSE user_data'[u].step = 2]_vars

\* the three texts have been taken one by one: each field holds its text, the
\* option is the one selected and the query is still empty
ThreeFieldsCollected ==
    \E u \in Users :
        /\ u \in DOMAIN user_data
        /\ user_data[u] = [step |-> 5, Option |-> "SEO", Name |-> "Al", Email |-> "a@b.c",
                           Phone |-> "+12 34-567", Query |-> ""]

----------------------------------------------------------------------------
(* C19 *)

\* the user whose event coroutine p is handling in this step
Actor(p) == IF h[p].pc = "idle" THEN h'[p].user ELSE h[p].user

\* C19: user isolation: a step of a handler for user u (button callback or text
\* message, accepted or rejected, submission and reset included, whatever other
\* handlers are suspended) leaves the session of every other user as it was,
\* present or absent; and a row appended for u is made of the Option, Name,
\* Email and Phone of u's own session and the text of u's message, the rows
\* already in the sheet staying as they were.
UserIsolation ==
    [][\A p \in Procs :
          h'[p] # h[p]
             => LET u == Actor(p)
                IN /\ \A v \in Users \ {u} :
                         /\ v \in DOMAIN user_data <=> v \in DOMAIN user_data'
                         /\ v \in DOMAIN user_data => user_data'[v] = user_data[v]
                   /\ sheet' # sheet
                         => /\ u \in DOMAIN user_data
                            /\ sheet' = Append(sheet, <<user_data[u].Option, user_data[u].Name,
                                                        user_data[u].Email, user_data[u].Phone,
                                                        h'[p].arg>>)]_vars

\* user 1 has submitted and its session has been deleted, with the session of
\* user 2 still in the store
OtherSessionOutlivesReset ==
    /\ sent = Reply(1, "WhatsApp")
    /\ 1 \notin DOMAIN user_data
    /\ Len(sheet) = 1
    /\ 2 \in DOMAIN user_data
    /\ user_data[2].step = 2

====
